---- MODULE Spec2Model ----
(***************************************************************************)
(* Model of rtabmap_ros OdometryROS (src/src/OdometryROS.cpp): the         *)
(* per-observation routine processData, the operator services reset,       *)
(* resetToPose, pause and resume, and the consecutive-failure countdown.   *)
(*                                                                         *)
(* The motion estimator (odometry_) and the transform listener are         *)
(* external collaborators; they are modelled at their interface: what the  *)
(* estimator returns for an observation and whether the listener can       *)
(* resolve a frame pair are inputs chosen by the environment.              *)
(***************************************************************************)
EXTENDS Integers, FiniteSets, Sequences, TLC

\* ------------------------------------------------------------------------
\* Bounds of the model
\* ------------------------------------------------------------------------

\* largest value of the "Odom/ResetCountdown" parameter that is explored
MaxCountdown == 3

\* largest countdown limit explored when liveness is checked
LiveMaxCountdown == 1

\* poses are the elements of the cyclic group Z_PoseMod (1-D translations)
PoseMod == 3

\* most observations the input synchroniser holds undelivered
MaxBuffered == 2

\* largest value of the "Vis/MinInliers" parameter that is explored
MaxInliers == 20

\* ------------------------------------------------------------------------
\* Poses (rtabmap::Transform)
\* ------------------------------------------------------------------------

\* a default-constructed Transform is null
Null == -1

\* Transform::getIdentity()
Identity == 0

Pose == 0 .. (PoseMod - 1)

PoseOrNull == Pose \cup {Null}

\* Transform::operator*
Compose(a, b) == (a + b) % PoseMod

\* Transform::inverse()
Inverse(a) == (PoseMod - a) % PoseMod

\* ------------------------------------------------------------------------
\* Frame pairs asked of the transform listener
\* ------------------------------------------------------------------------

\* groundTruthFrameId_ -> frameId_
GroundTruthPair == "gt"

\* odomFrameId_ -> guessFrameId_
GuessPair == "guess"

\* odomFrameId_ -> frameId_
FusionPair == "fusion"

FramePairs == {GroundTruthPair, GuessPair, FusionPair}

\* BAD_COVARIANCE
BAD_COVARIANCE == 9999

\* onInit: the least "Vis/MinInliers" the parameter loop lets through
MinInliersFloor == 8

\* waitForTransform_ (default of the constructor)
waitForTransform_ == TRUE

\* waitForTransformDuration_ in milliseconds (0.1 s)
WaitForTransformDurationMs == 100

VARIABLES
    resetCountdown_,       \* the countdown limit parsed in onInit
    groundTruthFrameId_,   \* "" when no ground-truth frame is configured
    guessFromTf_,          \* guess-from-tracking enabled
    publishNullWhenLost_,  \* publish the lost sentinel on a failure
    paused_,               \* set by pause(), cleared by resume()
    resetCurrentCount_,    \* remaining failures before the automatic reset
    odomPose,              \* odometry_->getPose()
    previousStamp,         \* odometry_->previousStamp(): 0 unset, 1 set
    tf,                    \* which frame pairs the listener can resolve
    pc,                    \* position of the processData callback
    call,                  \* what the current/last processData call did
    hist,                  \* history of estimation outcomes
    buffered,              \* observations received and not yet delivered
    parameters_,           \* parameters_["Vis/MinInliers"], as atoi reads it
    initPc,                \* position of onInit in its parameter handling
    initWarned             \* onInit logged the min_inliers warning

vars == <<resetCountdown_, groundTruthFrameId_, guessFromTf_,
          publishNullWhenLost_, paused_, resetCurrentCount_, odomPose,
          previousStamp, tf, pc, call, hist, buffered, parameters_,
          initPc, initWarned>>

estimatorConfig == <<parameters_, initPc, initWarned>>

config == <<resetCountdown_, groundTruthFrameId_, guessFromTf_,
            publishNullWhenLost_, estimatorConfig>>

\* ------------------------------------------------------------------------
\* Helpers translated from the code
\* ------------------------------------------------------------------------

\* variant: an unset (zero) stamp is answered with a null transform
getTransform_ZeroStampFails(avail, stampIsZero, value) ==
    IF stampIsZero \/ ~avail THEN Null ELSE value

\* OdometryROS::getTransform: null when waitForTransform times out or
\* lookupTransform throws, the listener's transform otherwise.  A zero
\* stamp only skips the wait.
getTransform(avail, stampIsZero, value) ==
    IF waitForTransform_ /\ ~stampIsZero /\ WaitForTransformDurationMs > 0
          /\ ~avail
    THEN Null
    ELSE IF avail THEN value ELSE Null

\* variant: bootstrap also when the pose is not the identity
NeedsBootstrap_Always(pose, gtFrame) == gtFrame # ""

\* processData, the condition of the ground-truth synchronisation
NeedsBootstrap(pose, gtFrame) == pose = Identity /\ gtFrame # ""

\* variant: an unresolved ground-truth transform does not abort the call
BootstrapAborts_Never(initialPose) == FALSE

\* processData: return when the ground-truth transform is null
BootstrapAborts(initialPose) == initialPose = Null

\* variant: the guess is composed the wrong way round
ComputeGuess_Swapped(previousPose, pose) ==
    IF previousPose # Null /\ pose # Null
    THEN Compose(previousPose, Inverse(pose))
    ELSE Null

\* processData: guess = previousPose.inverse() * pose when both resolve
ComputeGuess(previousPose, pose) ==
    IF previousPose # Null /\ pose # Null
    THEN Compose(Inverse(previousPose), pose)
    ELSE Null

\* variant: the estimator is called without the guess that was asked for
GuessAborts_Never(guess) == FALSE

\* processData: with guess_from_tf a null guess is an error and ends the call
GuessAborts(guess) == guess = Null

\* variant: the constructor arms the countdown
InitialCount_Armed(limit) == limit

\* the constructor: resetCurrentCount_(0), whatever limit onInit parses later
InitialCount(limit) == 0

\* variant: a success leaves the countdown where it was
CountAfterSuccess_Keep(count, limit) == count

\* processData: resetCurrentCount_ = resetCountdown_ on a non-null pose
CountAfterSuccess(count, limit) == limit

\* variant: the countdown is reloaded as soon as it reaches 0
CountAfterFailure_Reload(count, limit) ==
    IF count > 0
    THEN (IF count - 1 = 0 THEN limit ELSE count - 1)
    ELSE count

\* variant: the decrement is not guarded by resetCurrentCount_ > 0
CountAfterFailure_Unguarded(count, limit) == count - 1

\* processData: --resetCurrentCount_ when the pose is null and the
\* countdown is positive
CountAfterFailure(count, limit) ==
    IF count > 0 THEN count - 1 ELSE count

\* variant: the test for 0 is made outside the resetCurrentCount_ > 0 guard
Trips_Unguarded(count) == (IF count > 0 THEN count - 1 ELSE count) = 0

\* variant: the automatic reset is never reached
Trips_Never(count) == FALSE

\* processData: the automatic reset runs when the decrement reaches 0
Trips(count) == count > 0 /\ count - 1 = 0

\* variant: the automatic reset never uses the fusion transform
ReanchorPose_KeepsLast(tfPose, pose) == pose

\* variant: the automatic reset with a null fusion transform clears the pose
ReanchorPose_Clear(tfPose, pose) ==
    IF tfPose = Null THEN Identity ELSE tfPose

\* processData: reset to the fusion transform when it resolves, else to
\* odometry_->getPose()
ReanchorPose(tfPose, pose) ==
    IF tfPose = Null THEN pose ELSE tfPose

\* processData: the message that tells the subscribers odometry is lost; its
\* pose is left default-constructed and the six diagonal entries of both
\* covariances are BAD_COVARIANCE
LostOdometryMsg ==
    [pose |-> Null,
     poseCovariance |-> [i \in 1 .. 6 |-> BAD_COVARIANCE],
     twistCovariance |-> [i \in 1 .. 6 |-> BAD_COVARIANCE]]

\* variant: the lost message is published whatever publish_null_when_lost
FailurePublishes_Always(pnwl) == <<LostOdometryMsg>>

\* processData: the odometry messages published after a failed estimation
FailurePublishes(pnwl) == IF pnwl THEN <<LostOdometryMsg>> ELSE << >>

\* variant: the odometry message of a success is published unasked
SuccessPublishes_Unasked(odomSubs) == 1

\* processData: the number of odometry messages published after a
\* successful estimation
SuccessPublishes(odomSubs) == IF odomSubs THEN 1 ELSE 0

\* variant: the OdomInfo message is published in the success branch
InfoMsgs_SuccessOnly(infoSubs, success) ==
    IF infoSubs /\ success THEN 1 ELSE 0

\* processData: the number of OdomInfo messages published once the
\* estimator has returned, whatever it returned
InfoMsgs(infoSubs, success) == IF infoSubs THEN 1 ELSE 0

\* odometry_->process: the returned pose is the estimator's pose composed
\* with the estimated motion
EstimatedPose(pose, t) == Compose(pose, t)

\* variant: the services are served from a multi-threaded queue
CallbackQueueIdle_MT == TRUE

\* onInit advertises the services on getNodeHandle(), the nodelet's
\* single-threaded callback queue: a service callback runs only when no
\* other callback of the nodelet is running
CallbackQueueIdle == pc = "idle"

\* processData is not re-entered: the observations of one session are
\* delivered one at a time, on the dispatch thread that serves the services
ObservationQueueIdle == pc = "idle"

\* flushCallbacks() (implemented by the input-specific nodelets): drops what
\* the input synchroniser holds
flushCallbacks(n) == 0

\* the synchroniser hands its oldest observation to processData
Delivered(n) == IF n > 0 THEN n - 1 ELSE 0

\* odometry_->reset(...) may clear the estimator's previous stamp
StampAfterReset(stamp) == {0, stamp}

\* odometry_->process on a failure may clear the previous stamp
StampAfterFailure(stamp) == {0, stamp}

\* the frame pairs the configuration makes processData ask for; the
\* listener's state for the others is never read
Asked(f) ==
    \/ f = GroundTruthPair /\ groundTruthFrameId_ # ""
    \/ f = GuessPair /\ guessFromTf_
    \/ f = FusionPair /\ resetCountdown_ > 0

\* the point-cloud topics: odomLocalMap_, odomLastFrame_, odomLocalScanMap_
GeometryChannels ==
    {"odom_local_map", "odom_last_frame", "odom_local_scan_map"}

\* channels a call can publish on
Channels == {"tf", "odom", "sentinel", "odom_info"} \cup GeometryChannels

\* odometry_->getType(), as far as processData tells the types apart
OdometryTypes == {"F2M", "F2F", "other"}

\* what a call finds when it comes to the point clouds: the topics that
\* have subscribers, the estimator's type, whether the last/reference frame
\* has 3-D words and whether info.localScanMap is non-empty
GeometryInputs ==
    [subs : SUBSET GeometryChannels, type : OdometryTypes,
     words : BOOLEAN, scan : BOOLEAN]

\* nobody subscribes to a point cloud
NoGeometry ==
    [subs |-> {}, type |-> "F2M", words |-> FALSE, scan |-> FALSE]

\* variant: the local map is built for every frame-to-map estimation
DerivedGeometry_Unasked(geo) ==
    (IF geo.type = "F2M" THEN {"odom_local_map"} ELSE {})
    \cup (IF /\ "odom_last_frame" \in geo.subs
              /\ geo.type \in {"F2M", "F2F"}
              /\ geo.words
           THEN {"odom_last_frame"} ELSE {})
    \cup (IF "odom_local_scan_map" \in geo.subs /\ geo.scan
           THEN {"odom_local_scan_map"} ELSE {})

\* processData: the point clouds built and published after a success
DerivedGeometry(geo) ==
    (IF "odom_local_map" \in geo.subs /\ geo.type = "F2M"
     THEN {"odom_local_map"} ELSE {})
    \cup (IF /\ "odom_last_frame" \in geo.subs
              /\ geo.type \in {"F2M", "F2F"}
              /\ geo.words
           THEN {"odom_last_frame"} ELSE {})
    \cup (IF "odom_local_scan_map" \in geo.subs /\ geo.scan
           THEN {"odom_local_scan_map"} ELSE {})

\* processData: a subscribed last-frame topic with an estimator that is
\* neither frame-to-map nor frame-to-frame logs an error
WrongTypeError(geo) ==
    "odom_last_frame" \in geo.subs /\ geo.type \notin {"F2M", "F2F"}

NoCall ==
    [outcome |-> "none", lookups |-> {}, resets |-> {},
     guess |-> Null, basePose |-> Null, countBefore |-> 0,
     decremented |-> FALSE, published |-> {}, error |-> FALSE,
     lostMsgs |-> << >>, geoSubs |-> {}, infoWanted |-> FALSE,
     infoMsgs |-> 0, odomWanted |-> FALSE, odomMsgs |-> 0]

Min(a, b) == IF a < b THEN a ELSE b

\* ------------------------------------------------------------------------
\* Initial state: after the constructor and onInit
\* ------------------------------------------------------------------------

Init ==
    /\ resetCountdown_ \in 0 .. MaxCountdown
    /\ groundTruthFrameId_ \in {"", "world"}
    /\ guessFromTf_ \in BOOLEAN
    /\ publishNullWhenLost_ \in BOOLEAN
    /\ paused_ = FALSE
    /\ resetCurrentCount_ = InitialCount(resetCountdown_)
    /\ odomPose \in Pose   \* identity, or the "initial_pose" parameter
    /\ previousStamp = 0
    /\ tf \in [FramePairs -> BOOLEAN]
    /\ \A f \in FramePairs : tf[f] => Asked(f)
    /\ pc = "idle"
    /\ call = NoCall
    /\ hist = [succ |-> FALSE, failRun |-> 0, trips |-> 0]
    /\ buffered = 0
    /\ parameters_ = MinInliersFloor
    /\ initPc = "created"
    /\ initWarned = FALSE

\* ------------------------------------------------------------------------
\* onInit: the estimator's parameters, from the defaults to Odometry::create
\* ------------------------------------------------------------------------

\* what a source can hold for "Vis/MinInliers": Null when it does not name
\* the parameter, else the integer atoi reads from its string
SourceValues == {Null} \cup (0 .. MaxInliers)

\* a source that names the parameter replaces the value
Override(current, v) == IF v = Null THEN current ELSE v

\* onInit, end of the body of the loop over parameters_
ClampMinInliers(n) == IF n < MinInliersFloor THEN MinInliersFloor ELSE n

\* the members as the constructor leaves them, and the defaults of
\* Parameters::getDefaultOdometryParameters
InitParameters ==
    /\ resetCountdown_ = 0
    /\ groundTruthFrameId_ = ""
    /\ guessFromTf_ = FALSE
    /\ publishNullWhenLost_ = TRUE
    /\ paused_ = FALSE
    /\ resetCurrentCount_ = InitialCount(resetCountdown_)
    /\ odomPose = Identity
    /\ previousStamp = 0
    /\ tf = [f \in FramePairs |-> FALSE]
    /\ pc = "idle"
    /\ call = NoCall
    /\ hist = [succ |-> FALSE, failRun |-> 0, trips |-> 0]
    /\ buffered = 0
    /\ parameters_ \in 0 .. MaxInliers
    /\ initPc = "defaults"
    /\ initWarned = FALSE

initRest == <<groundTruthFrameId_, guessFromTf_, publishNullWhenLost_,
              paused_, resetCurrentCount_, odomPose, previousStamp, tf, pc,
              call, hist, buffered>>

\* the values of the config file replace the defaults
ReadConfigFile(v) ==
    /\ initPc = "defaults"
    /\ initPc' = "file"
    /\ parameters_' = Override(parameters_, v)
    /\ UNCHANGED <<initWarned, resetCountdown_, initRest>>

\* the loop over parameters_: the value on the private node handle replaces
\* the entry, then a "Vis/MinInliers" below 8 is set to 8 with a warning
KeyOverrides(v) ==
    /\ initPc = "file"
    /\ initPc' = "keys"
    /\ parameters_' = ClampMinInliers(Override(parameters_, v))
    /\ initWarned' = (Override(parameters_, v) < MinInliersFloor)
    /\ UNCHANGED <<resetCountdown_, initRest>>

\* the parameters parsed from the nodelet's arguments replace the entries
ArgOverrides(v) ==
    /\ initPc = "keys"
    /\ initPc' = "args"
    /\ parameters_' = Override(parameters_, v)
    /\ UNCHANGED <<initWarned, resetCountdown_, initRest>>

\* resetCountdown_ is parsed from parameters_ and the estimator is created
\* with parameters_
Create(limit) ==
    /\ initPc = "args"
    /\ initPc' = "created"
    /\ resetCountdown_' = limit
    /\ UNCHANGED <<parameters_, initWarned, initRest>>

ParamNext ==
    \/ \E v \in SourceValues : ReadConfigFile(v)
    \/ \E v \in SourceValues : KeyOverrides(v)
    \/ \E v \in SourceValues : ArgOverrides(v)
    \/ \E limit \in 0 .. MaxCountdown : Create(limit)

ParamSpec == InitParameters /\ [][ParamNext]_vars

\* ------------------------------------------------------------------------
\* processData, first part: ground-truth synchronisation and guess
\* ------------------------------------------------------------------------

\* gtT, prevT, curT: the transforms the listener holds for the ground-truth
\* pair at the stamp and for the guess pair at the previous and the
\* current stamp (Null: the listener cannot resolve the pair at that stamp)
ProcessBegin(gtT, prevT, curT) ==
    /\ ObservationQueueIdle
    /\ LET boot        == NeedsBootstrap(odomPose, groundTruthFrameId_)
           initialPose == IF boot
                          THEN getTransform(tf[GroundTruthPair], FALSE, gtT)
                          ELSE Null
           start       == NoCall
       IN
       IF boot /\ BootstrapAborts(initialPose)
       THEN \* return before anything else is done
            /\ call' = [start EXCEPT !.outcome = "abortBootstrap",
                                     !.lookups = {"gt"}]
            /\ UNCHANGED <<pc, odomPose, previousStamp>>
       ELSE \E stamp1 \in (IF boot THEN StampAfterReset(previousStamp)
                                    ELSE {previousStamp}) :
            LET pose1     == IF boot THEN initialPose ELSE odomPose
                afterBoot == [start EXCEPT
                                !.lookups = IF boot THEN {"gt"} ELSE {},
                                !.resets = IF boot THEN {"bootstrap"} ELSE {}]
                prevPose  == getTransform(prevT # Null, stamp1 = 0, prevT)
                pose      == getTransform(curT # Null, FALSE, curT)
                guess     == IF guessFromTf_
                             THEN ComputeGuess(prevPose, pose)
                             ELSE Null
                looked    == IF guessFromTf_
                             THEN afterBoot.lookups \cup {"guessPrev", "guessCur"}
                             ELSE afterBoot.lookups
            IN
            /\ odomPose' = pose1
            /\ previousStamp' = stamp1
            /\ IF guessFromTf_ /\ GuessAborts(guess)
               THEN \* the guess cannot be computed: abort
                    /\ call' = [afterBoot EXCEPT !.outcome = "abortGuess",
                                                 !.lookups = looked,
                                                 !.error = TRUE]
                    /\ pc' = pc
               ELSE /\ call' = [afterBoot EXCEPT !.outcome = "estimating",
                                                 !.lookups = looked,
                                                 !.guess = guess,
                                                 !.basePose = pose1]
                    /\ pc' = "estimating"
    /\ buffered' = Delivered(buffered)
    /\ UNCHANGED <<config, paused_, resetCurrentCount_, tf, hist>>

\* ------------------------------------------------------------------------
\* processData, second part: estimation, publication, failure countdown
\* ------------------------------------------------------------------------

\* t: the motion the estimator computed, Null when it failed
\* fusionT: the transform the listener holds for odomFrameId_ -> frameId_
\* odomSubs, infoSubs: odomPub_ / odomInfoPub_ have subscribers
\* geo: what the call finds for the point clouds
ProcessEnd(t, fusionT, odomSubs, infoSubs, geo) ==
    /\ pc = "estimating"
    /\ pc' = "idle"
    /\ IF t # Null
       THEN \* a valid pose
            LET pose == EstimatedPose(odomPose, t) IN
            /\ resetCurrentCount_' =
                   CountAfterSuccess(resetCurrentCount_, resetCountdown_)
            /\ odomPose' = pose
            /\ previousStamp' = 1
            /\ call' = [call EXCEPT
                          !.outcome = "success",
                          !.countBefore = resetCurrentCount_,
                          !.guess = Null,
                          !.basePose = Null,
                          !.geoSubs = geo.subs,
                          !.error = WrongTypeError(geo),
                          !.infoWanted = infoSubs,
                          !.infoMsgs = InfoMsgs(infoSubs, TRUE),
                          !.odomWanted = odomSubs,
                          !.odomMsgs = SuccessPublishes(odomSubs),
                          !.published =
                              {"tf"}
                              \cup (IF SuccessPublishes(odomSubs) > 0
                                    THEN {"odom"} ELSE {})
                              \cup DerivedGeometry(geo)
                              \cup (IF InfoMsgs(infoSubs, TRUE) > 0
                                    THEN {"odom_info"} ELSE {})]
            /\ hist' = [hist EXCEPT !.succ = TRUE, !.failRun = 0,
                                    !.trips = 0]
       ELSE \* odometry lost
            LET trips  == Trips(resetCurrentCount_)
                tfPose == getTransform(tf[FusionPair], FALSE, fusionT)
                lost   == FailurePublishes(publishNullWhenLost_)
            IN
            \E stamp1 \in StampAfterFailure(previousStamp) :
            \E stamp2 \in (IF trips THEN StampAfterReset(stamp1)
                                     ELSE {stamp1}) :
            /\ resetCurrentCount_' =
                   CountAfterFailure(resetCurrentCount_, resetCountdown_)
            /\ odomPose' = IF trips THEN ReanchorPose(tfPose, odomPose)
                                    ELSE odomPose
            /\ previousStamp' = stamp2
            /\ call' = [call EXCEPT
                          !.outcome = "failure",
                          !.countBefore = resetCurrentCount_,
                          !.guess = Null,
                          !.basePose = Null,
                          !.decremented =
                              (resetCurrentCount_' < resetCurrentCount_),
                          !.lookups = IF trips THEN @ \cup {"fusion"} ELSE @,
                          !.resets =
                              IF trips
                              THEN @ \cup {IF tfPose = Null THEN "last"
                                                            ELSE "tf"}
                              ELSE @,
                          !.lostMsgs = lost,
                          !.geoSubs = geo.subs,
                          !.infoWanted = infoSubs,
                          !.infoMsgs = InfoMsgs(infoSubs, FALSE),
                          !.odomMsgs = Len(lost),
                          !.published =
                              (IF lost # << >> THEN {"sentinel"} ELSE {})
                              \cup (IF InfoMsgs(infoSubs, FALSE) > 0
                                    THEN {"odom_info"} ELSE {})]
            /\ hist' = [hist EXCEPT
                          !.failRun = Min(@ + 1, resetCountdown_ + 2),
                          !.trips = IF trips THEN Min(@ + 1, 2) ELSE @]
    /\ UNCHANGED <<config, paused_, tf, buffered>>

\* ------------------------------------------------------------------------
\* Operator services
\* ------------------------------------------------------------------------

\* variant: reset without the call of flushCallbacks
Reset_NoFlush ==
    /\ CallbackQueueIdle
    /\ odomPose' = Identity
    /\ previousStamp' \in StampAfterReset(previousStamp)
    /\ UNCHANGED <<config, paused_, resetCurrentCount_, tf, pc, call, hist,
                   buffered>>

\* OdometryROS::reset
Reset ==
    /\ CallbackQueueIdle
    /\ odomPose' = Identity
    /\ previousStamp' \in StampAfterReset(previousStamp)
    /\ buffered' = flushCallbacks(buffered)
    /\ UNCHANGED <<config, paused_, resetCurrentCount_, tf, pc, call, hist>>

\* variant: a manual reset re-arms the countdown
ResetToPose_Rearms(p) ==
    /\ CallbackQueueIdle
    /\ odomPose' = p
    /\ previousStamp' \in StampAfterReset(previousStamp)
    /\ buffered' = flushCallbacks(buffered)
    /\ resetCurrentCount_' = resetCountdown_
    /\ UNCHANGED <<config, paused_, tf, pc, call, hist>>

\* OdometryROS::resetToPose
ResetToPose(p) ==
    /\ CallbackQueueIdle
    /\ odomPose' = p
    /\ previousStamp' \in StampAfterReset(previousStamp)
    /\ buffered' = flushCallbacks(buffered)
    /\ UNCHANGED <<config, paused_, resetCurrentCount_, tf, pc, call, hist>>

\* variant: a redundant pause is refused
PauseResult_RefusesRedundant(paused) ==
    [paused |-> TRUE, ok |-> ~paused,
     level |-> IF paused THEN "error" ELSE "info"]

\* OdometryROS::pause: the flag after the call, the value returned to the
\* caller and the level of the message logged
PauseResult(paused) ==
    IF paused
    THEN [paused |-> paused, ok |-> TRUE, level |-> "warn"]
    ELSE [paused |-> TRUE, ok |-> TRUE, level |-> "info"]

\* OdometryROS::resume
ResumeResult(paused) ==
    IF ~paused
    THEN [paused |-> paused, ok |-> TRUE, level |-> "warn"]
    ELSE [paused |-> FALSE, ok |-> TRUE, level |-> "info"]

\* OdometryROS::pause
Pause ==
    /\ CallbackQueueIdle
    /\ paused_' = PauseResult(paused_).paused
    /\ UNCHANGED <<config, resetCurrentCount_, odomPose, previousStamp, tf,
                   pc, call, hist, buffered>>

\* OdometryROS::resume
Resume ==
    /\ CallbackQueueIdle
    /\ paused_' = ResumeResult(paused_).paused
    /\ UNCHANGED <<config, resetCurrentCount_, odomPose, previousStamp, tf,
                   pc, call, hist, buffered>>

\* ------------------------------------------------------------------------
\* Environment: the transform listener gains or loses a frame pair
\* ------------------------------------------------------------------------

TfChange(f) ==
    /\ Asked(f)
    /\ tf' = [tf EXCEPT ![f] = ~tf[f]]
    /\ UNCHANGED <<config, paused_, resetCurrentCount_, odomPose,
                   previousStamp, pc, call, hist, buffered>>

\* ------------------------------------------------------------------------
\* Environment: an observation reaches the input synchroniser while the
\* nodelet's callback queue is busy or the set is incomplete
\* ------------------------------------------------------------------------

Arrive ==
    /\ buffered < MaxBuffered
    /\ buffered' = buffered + 1
    /\ UNCHANGED <<config, paused_, resetCurrentCount_, odomPose,
                   previousStamp, tf, pc, call, hist>>

\* ------------------------------------------------------------------------
\* Specifications
\* ------------------------------------------------------------------------

\* the transform of a pair that is not resolvable or not asked for is
\* never read: one value stands for it
Held(f) == IF tf[f] THEN Pose ELSE {Identity}

\* what the two lookups of the guess pair can return: both resolve when the
\* listener resolves the pair, at least one fails when it does not
HeldGuess ==
    IF ~guessFromTf_ THEN {<<Null, Null>>}
    ELSE IF tf[GuessPair] THEN Pose \X Pose
    ELSE (PoseOrNull \X PoseOrNull) \ (Pose \X Pose)

Begin == \E gtT \in Held(GroundTruthPair) :
         \E ab \in HeldGuess :
             ProcessBegin(gtT, ab[1], ab[2])

End == \E t \in PoseOrNull, fusionT \in Held(FusionPair),
          odomSubs \in BOOLEAN, infoSubs \in BOOLEAN :
           ProcessEnd(t, fusionT, odomSubs, infoSubs, NoGeometry)

\* the second part of processData with any subscribers of the point clouds
GeometryEnd == \E t \in PoseOrNull, fusionT \in Held(FusionPair),
                  odomSubs \in BOOLEAN, infoSubs \in BOOLEAN,
                  geo \in GeometryInputs :
                   ProcessEnd(t, fusionT, odomSubs, infoSubs, geo)

Next ==
    \/ Begin
    \/ End
    \/ Reset
    \/ \E p \in Pose : ResetToPose(p)
    \/ Pause
    \/ Resume
    \/ \E f \in FramePairs : TfChange(f)

Spec == Init /\ [][Next]_vars

\* the configurations explored for liveness: the sentinel flag at its
\* default (it only selects what a failed call publishes) and a limit that
\* is either 0 (never trips) or small
LiveInit ==
    /\ Init
    /\ publishNullWhenLost_ = TRUE
    /\ resetCountdown_ <= LiveMaxCountdown

\* observations keep arriving and a started call runs to its end
LiveSpec == LiveInit /\ [][Next]_vars /\ WF_vars(Begin) /\ WF_vars(End)

\* the steps of Spec from the configurations of LiveInit
SmallSpec == LiveInit /\ [][Next]_vars

\* the same steps with observations that wait in the input synchroniser
BufferedNext ==
    \/ Next
    \/ Arrive

BufferedSpec == LiveInit /\ [][BufferedNext]_vars

\* the same steps with subscribers of the point clouds
GeometryNext ==
    \/ Begin
    \/ GeometryEnd
    \/ Reset
    \/ \E p \in Pose : ResetToPose(p)
    \/ Pause
    \/ Resume
    \/ \E f \in FramePairs : TfChange(f)

\* the point clouds depend on neither the guess nor the ground truth
GeometryInit ==
    /\ LiveInit
    /\ ~guessFromTf_
    /\ groundTruthFrameId_ = ""

GeometrySpec == GeometryInit /\ [][GeometryNext]_vars

TypeOK ==
    /\ resetCountdown_ \in 0 .. MaxCountdown
    /\ resetCurrentCount_ \in 0 .. MaxCountdown
    /\ odomPose \in Pose
    /\ previousStamp \in {0, 1}
    /\ pc \in {"idle", "estimating"}
    /\ call.published \subseteq Channels
    /\ buffered \in 0 .. MaxBuffered
    /\ parameters_ \in 0 .. MaxInliers
    /\ initPc \in {"defaults", "file", "keys", "args", "created"}

\* ------------------------------------------------------------------------
\* Properties
\* ------------------------------------------------------------------------

\* the automatic reset of the failure branch ran in the last call
Reanchored == call.resets \cap {"last", "tf"} # {}

\* C1 (as stated): for a limit N > 0, from any reachable state, start-up
\* included, N consecutive failed estimations trip the policy exactly once
C1_FromAnyState ==
    (resetCountdown_ > 0 /\ hist.failRun >= resetCountdown_)
        => hist.trips = 1

\* C1 (amended): for a limit N > 0, N consecutive failed estimations that
\* follow a successful one trip the policy exactly once, in the call of
\* the Nth failure, hence before the estimator is called again; failures
\* before the first success trip nothing
C1_TripsOnceAfterSuccess ==
    resetCountdown_ > 0 =>
        /\ ~hist.succ => hist.trips = 0
        /\ (hist.succ /\ hist.failRun < resetCountdown_) =>
               /\ hist.trips = 0
               /\ resetCurrentCount_ = resetCountdown_ - hist.failRun
        /\ (hist.succ /\ hist.failRun >= resetCountdown_) =>
               /\ hist.trips = 1
               /\ resetCurrentCount_ = 0
        /\ (hist.succ /\ hist.failRun = resetCountdown_
               /\ call.outcome = "failure") => Reanchored

C1_Witness ==
    /\ resetCountdown_ >= 2
    /\ hist.succ
    /\ hist.failRun = resetCountdown_
    /\ hist.trips = 1
    /\ call.outcome = "failure"
    /\ Reanchored

\* C2 (as stated): in the call whose failure trips the policy the countdown
\* is reloaded to the limit
C2_ReloadedAfterTrip ==
    (call.outcome = "failure" /\ Reanchored)
        => resetCurrentCount_ = resetCountdown_

\* C2 (amended): the call whose failure trips the policy leaves the
\* countdown at 0; it is not reloaded before the next success, so a run of
\* failures trips at most once
C2_StaysZeroAfterTrip ==
    /\ (call.outcome = "failure" /\ Reanchored) =>
           /\ call.countBefore = 1
           /\ resetCurrentCount_ = 0
    /\ hist.trips <= 1
    /\ hist.trips = 1 => resetCurrentCount_ = 0

C2_Witness ==
    /\ resetCountdown_ = 3
    /\ hist.succ
    /\ hist.failRun > resetCountdown_
    /\ hist.trips = 1
    /\ call.outcome = "failure"
    /\ ~Reanchored
    /\ resetCurrentCount_ = 0

\* C3: a call in which the estimator returns a pose sets the countdown to
\* the limit whatever it was, and neither decrements it nor runs the
\* automatic reset
C3_SuccessReloads ==
    call.outcome = "success" =>
        /\ resetCurrentCount_ = resetCountdown_
        /\ ~call.decremented
        /\ ~Reanchored
        /\ "fusion" \notin call.lookups

C3_Witness ==
    /\ call.outcome = "success"
    /\ call.countBefore = 1
    /\ resetCountdown_ >= 2
    /\ resetCurrentCount_ = resetCountdown_

\* C4: with a limit of 0 the automatic reset never runs: neither its
\* transform lookup nor its estimator reset
C4_DisabledNeverReanchors ==
    resetCountdown_ = 0 =>
        /\ ~Reanchored
        /\ "fusion" \notin call.lookups
        /\ hist.trips = 0
        /\ resetCurrentCount_ = 0

C4_Witness ==
    /\ resetCountdown_ = 0
    /\ hist.failRun >= 2
    /\ call.outcome = "failure"

\* the session state of the data model
session == <<odomPose, resetCurrentCount_, previousStamp>>

\* every frame pair the configuration asks for is resolvable
TfResolves == \A f \in FramePairs : Asked(f) => tf[f]

\* C5: while paused, a processData call does not reach the estimator,
\* publishes nothing and leaves the session state unchanged
C5_PausedCallsAreNoOps ==
    [][(paused_ /\ Begin) =>
          (pc' = "idle" /\ call'.published = {} /\ UNCHANGED session)]_vars

C7_NeverStuck ==
    /\ (pc = "estimating") ~> (pc = "idle")
    /\ (<>[](~paused_ /\ TfResolves)) => ([]<>(pc = "estimating"))

C7_Witness ==
    /\ guessFromTf_
    /\ ~hist.succ
    /\ previousStamp = 0
    /\ pc = "estimating"
    /\ "guessPrev" \in call.lookups

\* C8: the countdown stays within 0 .. limit, and it decreases only in a
\* call whose estimation failed, by exactly 1
C8_CountdownRange ==
    /\ [](resetCurrentCount_ \in 0 .. resetCountdown_)
    /\ [][resetCurrentCount_' < resetCurrentCount_ =>
             /\ pc = "estimating"
             /\ call'.outcome = "failure"
             /\ resetCurrentCount_' = resetCurrentCount_ - 1]_vars

C8_Witness ==
    /\ call.outcome = "failure"
    /\ call.decremented
    /\ resetCurrentCount_ = call.countBefore - 1
    /\ resetCurrentCount_ > 0

\* a reset or resetToPose service call
OperatorReset == Reset \/ \E p \in Pose : ResetToPose(p)

\* C9 (as stated): the pose changes only by an operator reset, by the
\* ground-truth synchronisation before any estimation has succeeded, or by
\* a successful estimation
C9_PoseChangesOnlyThreeWays ==
    [][odomPose' # odomPose =>
          \/ OperatorReset
          \/ Begin /\ "bootstrap" \in call'.resets /\ ~hist.succ
          \/ pc = "estimating" /\ call'.outcome = "success"]_vars

\* C9 (amended): the pose changes only by an operator reset, by the
\* ground-truth synchronisation (which runs in every call that finds the
\* pose at identity with a ground-truth frame configured and resolvable),
\* by a successful estimation, or by the automatic reset to the fusion
\* transform when the countdown trips; any other failed call leaves it
PoseChangeAllowed ==
    \/ OperatorReset
    \/ /\ Begin
       /\ "bootstrap" \in call'.resets
       /\ odomPose = Identity
       /\ groundTruthFrameId_ # ""
       /\ tf[GroundTruthPair]
    \/ pc = "estimating" /\ call'.outcome = "success"
    \/ /\ pc = "estimating"
       /\ call'.outcome = "failure"
       /\ "tf" \in call'.resets
       /\ resetCurrentCount_ = 1
       /\ tf[FusionPair]

C9_PoseChangesOnlyFourWays ==
    [][odomPose' # odomPose => PoseChangeAllowed]_vars

C9_Witness ==
    /\ hist.succ
    /\ call.outcome = "failure"
    /\ call.resets = {"bootstrap", "tf"}

\* C10: a call that finds the pose at identity with a ground-truth frame
\* configured looks the ground-truth transform up; unresolved, the call
\* ends there (no guess lookup, no estimator, nothing published, pose and
\* countdown unchanged); resolved, the pose is reset to it before the
\* estimator runs
C10_BootstrapAbort ==
    [][(pc = "idle" /\ odomPose = Identity /\ groundTruthFrameId_ # "") =>
       \A g \in Held(GroundTruthPair) :
       \A ab \in HeldGuess :
          ProcessBegin(g, ab[1], ab[2]) =>
             IF tf[GroundTruthPair]
             THEN /\ "bootstrap" \in call'.resets
                  /\ odomPose' = g
                  /\ pc' = "estimating" => call'.basePose = g
             ELSE /\ pc' = "idle"
                  /\ call'.outcome = "abortBootstrap"
                  /\ call'.lookups = {"gt"}
                  /\ call'.resets = {}
                  /\ call'.published = {}
                  /\ UNCHANGED session]_vars

C10_Witness ==
    /\ call.outcome = "abortBootstrap"
    /\ odomPose = Identity
    /\ groundTruthFrameId_ # ""
    /\ ~tf[GroundTruthPair]

\* C11: resetToPose(p) sets the pose to p, and a processData call runs the
\* ground-truth synchronisation exactly when it finds the pose at identity
\* with a ground-truth frame configured: not after resetToPose to another
\* pose, and never without a ground-truth frame
C11_ResetToPoseSkipsBootstrap ==
    [][/\ \A p \in Pose : ResetToPose(p) => odomPose' = p
       /\ (pc = "idle" /\ Begin) =>
             /\ "gt" \in call'.lookups <=>
                   (odomPose = Identity /\ groundTruthFrameId_ # "")
             /\ "bootstrap" \in call'.resets => "gt" \in call'.lookups
             /\ "gt" \notin call'.lookups => odomPose' = odomPose]_vars

\* a call was aborted waiting for the ground truth with the pose at identity,
\* and resetToPose has since moved the pose off the identity
C11_Witness ==
    /\ groundTruthFrameId_ # ""
    /\ call.outcome = "abortBootstrap"
    /\ pc = "idle"
    /\ odomPose # Identity

\* C12: reset() puts the pose at identity and leaves nothing buffered for a
\* later delivery, whatever the state it is called in, and changes nothing
\* else of the session: a second reset() right after the first changes
\* nothing
C12_ResetFlushesAndIsIdempotent ==
    [][Reset =>
         /\ odomPose' = Identity
         /\ buffered' = 0
         /\ UNCHANGED <<config, paused_, resetCurrentCount_, pc, call>>]_vars

\* a reset after a successful call: the estimator's previous stamp, set by
\* the success, is cleared again, the pose is at identity and nothing waits
C12_Witness ==
    /\ call.outcome = "success"
    /\ pc = "idle"
    /\ previousStamp = 0
    /\ odomPose = Identity
    /\ buffered = 0

\* C13: in every state pause() and resume() return success and log no error;
\* pause() leaves paused_ true, resume() leaves it false, neither changes
\* anything else, and a redundant call changes nothing at all
C13_PauseResumeAlwaysSucceed ==
    /\ [](/\ PauseResult(paused_).ok
          /\ PauseResult(paused_).level # "error"
          /\ PauseResult(paused_).paused = TRUE
          /\ ResumeResult(paused_).ok
          /\ ResumeResult(paused_).level # "error"
          /\ ResumeResult(paused_).paused = FALSE
          /\ paused_ => PauseResult(paused_).paused = paused_
          /\ ~paused_ => ResumeResult(paused_).paused = paused_)
    /\ [][/\ Pause => paused_'
          /\ Resume => ~paused_'
          /\ (Pause \/ Resume) =>
                UNCHANGED <<config, resetCurrentCount_, odomPose,
                            previousStamp, tf, pc, call, hist, buffered>>]_vars

\* paused between two calls, after the estimator has already succeeded
C13_Witness ==
    /\ paused_
    /\ hist.succ
    /\ pc = "idle"

\* C14: with guess_from_tf enabled, a call that gets past the ground-truth
\* synchronisation and finds one of the two guess lookups unresolved ends
\* there with an error logged: the estimator is not called, nothing is
\* published and resetCurrentCount_ keeps its value
C14_GuessFailureAborts ==
    [][(/\ pc = "idle" /\ guessFromTf_ /\ ~tf[GuessPair]
        /\ call'.outcome # "abortBootstrap"
        /\ \E g \in Held(GroundTruthPair) :
           \E ab \in HeldGuess :
              /\ ab[1] = Null \/ ab[2] = Null
              /\ ProcessBegin(g, ab[1], ab[2])) =>
          /\ call'.outcome = "abortGuess"
          /\ call'.error
          /\ pc' = "idle"
          /\ call'.published = {}
          /\ resetCurrentCount_' = resetCurrentCount_
          /\ hist' = hist]_vars

\* a call was aborted for its guess while the countdown was running
C14_Witness ==
    /\ call.outcome = "abortGuess"
    /\ call.error
    /\ call.published = {}
    /\ resetCurrentCount_ > 0

\* C15: the guess handed to the estimator is previousPose.inverse() * pose
\* of the two transforms looked up for the previous and the current stamp,
\* both of which resolved; with guess_from_tf disabled the estimator is
\* always called without a guess
C15_GuessIsRelativeMotion ==
    [][(pc = "idle" /\ pc' = "estimating") =>
       \A g \in Held(GroundTruthPair) :
       \A ab \in HeldGuess :
          ProcessBegin(g, ab[1], ab[2]) =>
             IF guessFromTf_
             THEN /\ ab[1] # Null
                  /\ ab[2] # Null
                  /\ call'.guess = Compose(Inverse(ab[1]), ab[2])
             ELSE call'.guess = Null]_vars

\* the estimator is running with a guess that is a real motion
C15_Witness ==
    /\ pc = "estimating"
    /\ guessFromTf_
    /\ call.guess \in Pose \ {Identity}

\* C16: a failed estimation publishes the lost message, with every diagonal
\* entry of the pose and twist covariances at BAD_COVARIANCE, exactly when
\* publish_null_when_lost is set, and no other odometry message; a
\* successful estimation and an aborted call publish no lost message
C16_SentinelOnlyWhenLost ==
    /\ call.outcome = "failure" =>
          /\ "odom" \notin call.published
          /\ "sentinel" \in call.published <=> publishNullWhenLost_
          /\ publishNullWhenLost_ =>
                /\ Len(call.lostMsgs) = 1
                /\ \A i \in 1 .. 6 :
                      /\ call.lostMsgs[1].poseCovariance[i] = BAD_COVARIANCE
                      /\ call.lostMsgs[1].twistCovariance[i] = BAD_COVARIANCE
          /\ ~publishNullWhenLost_ => call.lostMsgs = << >>
    /\ call.outcome # "failure" =>
          /\ "sentinel" \notin call.published
          /\ call.lostMsgs = << >>

\* a failed estimation with the flag cleared, after one that succeeded
C16_Witness ==
    /\ call.outcome = "failure"
    /\ ~publishNullWhenLost_
    /\ hist.succ
    /\ call.lostMsgs = << >>

\* C17: the failure that takes resetCurrentCount_ from 1 to 0 looks up
\* odomFrameId_ -> frameId_ and resets the estimator exactly once: to that
\* transform when it resolves, else to the estimator's own pose, which
\* therefore keeps its value
C17_ReanchorTarget ==
    [][(/\ pc = "estimating"
        /\ resetCurrentCount_ = 1
        /\ call'.outcome = "failure") =>
       \A f \in Held(FusionPair) :
          (\E o \in BOOLEAN, i \in BOOLEAN :
              ProcessEnd(Null, f, o, i, NoGeometry)) =>
             /\ "fusion" \in call'.lookups
             /\ IF tf[FusionPair]
                THEN /\ odomPose' = f
                     /\ call'.resets \ call.resets = {"tf"}
                ELSE /\ odomPose' = odomPose
                     /\ call'.resets \ call.resets = {"last"}]_vars

\* the automatic reset moved the pose to the fusion transform
C17_Witness ==
    /\ call.outcome = "failure"
    /\ "tf" \in call.resets
    /\ "last" \notin call.resets
    /\ tf[FusionPair]
    /\ pc = "idle"

\* C18: a call publishes a point cloud only on a topic that had subscribers
\* when the call looked, and only after a successful estimation; a topic
\* without subscribers gets no point cloud
C18_GeometryOnlyWhenWanted ==
    /\ call.published \cap GeometryChannels \subseteq call.geoSubs
    /\ call.outcome # "success" => call.published \cap GeometryChannels = {}

\* a success with subscribers on the three topics that published two of the
\* point clouds, and a third that it did not have to build
C18_Witness ==
    /\ call.outcome = "success"
    /\ call.geoSubs = GeometryChannels
    /\ call.published \cap GeometryChannels =
          {"odom_last_frame", "odom_local_scan_map"}

\* C19: a call that got as far as the estimator (a pose, a failure, the
\* failure that trips the countdown) has published one OdomInfo message when
\* it found odomInfoPub_ with subscribers and none when it did not; a call
\* that ended before the estimator is not concerned and published none
C19_InfoOncePerEstimation ==
    /\ call.outcome \in {"success", "failure"} =>
          /\ call.infoMsgs = (IF call.infoWanted THEN 1 ELSE 0)
          /\ "odom_info" \in call.published <=> call.infoWanted
    /\ call.outcome \notin {"success", "failure"} =>
          /\ call.infoMsgs = 0
          /\ "odom_info" \notin call.published

\* the failure that tripped the countdown published its OdomInfo message
C19_Witness ==
    /\ call.outcome = "failure"
    /\ Reanchored
    /\ call.infoMsgs = 1
    /\ "odom_info" \in call.published

\* C20: the "Vis/MinInliers" value with which the estimator is created is at
\* least 8 whatever the defaults, the config file, the private node handle
\* and the arguments held
C20_MinInliersFloor ==
    initPc = "created" => parameters_ >= MinInliersFloor

\* C21: resetCurrentCount_ is 0 until the first successful estimation and
\* only a successful estimation raises it; the automatic reset therefore
\* runs only in a run of failures that follows a success, and at most once
\* in such a run
C21_ReanchorNeedsSuccess ==
    /\ [](/\ ~hist.succ =>
                /\ resetCurrentCount_ = 0
                /\ hist.trips = 0
                /\ ~Reanchored
          /\ Reanchored => (hist.succ /\ call.countBefore > 0)
          /\ hist.trips <= 1)
    /\ [][resetCurrentCount_' > resetCurrentCount_ =>
             (pc = "estimating" /\ call'.outcome = "success")]_vars

\* with a limit of 1 the first failure after a success ran the automatic
\* reset
C21_Witness ==
    /\ resetCountdown_ = 1
    /\ hist.succ
    /\ hist.failRun = 1
    /\ hist.trips = 1
    /\ Reanchored
    /\ pc = "idle"

\* C22: a call publishes at most one message on the odometry topic: the
\* estimated pose, only after a success that found odomPub_ with
\* subscribers, or the lost message, only after a failure with
\* publish_null_when_lost, never both; a call that ended before the
\* estimator publishes none
C22_AtMostOnePoseMessage ==
    /\ call.odomMsgs <= 1
    /\ call.odomMsgs = Cardinality(call.published \cap {"odom", "sentinel"})
    /\ "odom" \in call.published =>
          (call.outcome = "success" /\ call.odomWanted)
    /\ "sentinel" \in call.published =>
          (call.outcome = "failure" /\ publishNullWhenLost_)
    /\ call.outcome \notin {"success", "failure"} =>
          /\ call.odomMsgs = 0
          /\ call.published = {}

\* a success that reset the pose to the ground truth first and published
\* its one odometry message
C22_Witness ==
    /\ call.outcome = "success"
    /\ "bootstrap" \in call.resets
    /\ call.odomWanted
    /\ call.odomMsgs = 1
    /\ "odom" \in call.published

\* C23: reset and resetToPose leave paused_ and resetCurrentCount_ as they
\* are (a manual reset neither re-arms nor clears the countdown); pause and
\* resume leave the pose and resetCurrentCount_ as they are
C23_CommandsKeepToTheirState ==
    [][/\ OperatorReset => UNCHANGED <<paused_, resetCurrentCount_>>
       /\ (Pause \/ Resume) =>
             UNCHANGED <<odomPose, resetCurrentCount_>>]_vars

\* paused, with the countdown running and a call aborted at the identity
\* pose, resetToPose has moved the pose: the countdown still runs and the
\* nodelet is still paused
C23_Witness ==
    /\ groundTruthFrameId_ # ""
    /\ call.outcome = "abortBootstrap"
    /\ odomPose # Identity
    /\ resetCurrentCount_ > 0
    /\ paused_

====
